---- MODULE Spec2Model ----
(***************************************************************************)
(* The upload/analyze pipeline of app/routes/upload.tsx: the component's   *)
(* state (isProcessing, statusText, file), the asynchronous handler        *)
(* handleAnalyze with one step per await, its response handling (text      *)
(* extraction, fence removal, JSON.parse, validation), and the external    *)
(* collaborators (fs, kv, ai, convertPdfToImage, navigate) as inputs.      *)
(*                                                                         *)
(* Text is a sequence of fragments.  The fragments that the code looks at  *)
(* are single characters or words: "BT" is one backtick, "NL" a line feed, *)
(* "SP" a blank, "Q" a double quote, "json" the four letters j s o n; every*)
(* other fragment is a run of characters none of the patterns matches.     *)
(***************************************************************************)
EXTENDS Naturals, Sequences, FiniteSets, TLC

\* The number of submissions a behaviour may hold.
MaxRuns == 2

\* The longest content array the AI service answers with.
MaxItems == 2

-----------------------------------------------------------------------------
(* JavaScript values, as far as the handler looks at them. *)

JV(t, num, str, elems, members) ==
    [t |-> t, num |-> num, str |-> str, elems |-> elems, members |-> members]

JUndefined == JV("undefined", 0, <<>>, <<>>, <<>>)
JNull == JV("null", 0, <<>>, <<>>, <<>>)
JNum(n) == JV("num", n, <<>>, <<>>, <<>>)
JStr(s) == JV("str", 0, s, <<>>, <<>>)
JArr(es) == JV("arr", 0, <<>>, es, <<>>)
JObj(ms) == JV("obj", 0, <<>>, <<>>, ms)

\* !v is false
Truthy(v) ==
    CASE v.t \in {"undefined", "null"} -> FALSE
      [] v.t = "num" -> v.num # 0
      [] v.t = "str" -> v.str # <<>>
      [] OTHER -> TRUE

\* v.key throws a TypeError
PropThrows(v) == v.t \in {"undefined", "null"}

RECURSIVE Lookup(_, _, _)
Lookup(ms, key, i) ==
    IF i = 0 THEN JUndefined
    ELSE IF ms[i].k = key THEN ms[i].v
    ELSE Lookup(ms, key, i - 1)

\* v.key, for a v on which it does not throw
Prop(v, key) == IF v.t = "obj" THEN Lookup(v.members, key, Len(v.members)) ELSE JUndefined

\* key in v
HasProp(v, key) == v.t = "obj" /\ \E i \in 1..Len(v.members) : v.members[i].k = key

\* obj[key] = v: a key already set keeps its place
SetMember(ms, key, v) ==
    IF \E i \in 1..Len(ms) : ms[i].k = key
    THEN [i \in 1..Len(ms) |-> IF ms[i].k = key THEN [k |-> key, v |-> v] ELSE ms[i]]
    ELSE Append(ms, [k |-> key, v |-> v])

-----------------------------------------------------------------------------
(* JSON.parse and JSON.stringify over fragments. *)

IsWs(tok) == tok \in {"SP", "NL"}

RECURSIVE SkipWs(_, _)
SkipWs(s, i) == IF i <= Len(s) /\ IsWs(s[i]) THEN SkipWs(s, i + 1) ELSE i

\* The index of the quote that closes a string opened before j; 0 if none.
RECURSIVE CloseQ(_, _)
CloseQ(s, j) ==
    IF j > Len(s) \/ s[j] = "NL" THEN 0
    ELSE IF s[j] = "Q" THEN j
    ELSE CloseQ(s, j + 1)

ParseFail == [ok |-> FALSE, val |-> JUndefined, next |-> 0]
ParseOk(v, n) == [ok |-> TRUE, val |-> v, next |-> n]

ParseString(s, i) ==
    IF i > Len(s) \/ s[i] # "Q" THEN ParseFail
    ELSE LET j == CloseQ(s, i + 1)
         IN  IF j = 0 THEN ParseFail ELSE ParseOk(JStr(SubSeq(s, i + 1, j - 1)), j + 1)

RECURSIVE ParseValue(_, _)
RECURSIVE ParseElems(_, _, _)
RECURSIVE ParseMembers(_, _, _)

ParseValue(s, i) ==
    IF i > Len(s) THEN ParseFail
    ELSE CASE s[i] = "null" -> ParseOk(JNull, i + 1)
           [] s[i] = "0" -> ParseOk(JNum(0), i + 1)
           [] s[i] = "1" -> ParseOk(JNum(1), i + 1)
           [] s[i] = "Q" -> ParseString(s, i)
           [] s[i] = "[" ->
                LET j == SkipWs(s, i + 1)
                IN  IF j <= Len(s) /\ s[j] = "]" THEN ParseOk(JArr(<<>>), j + 1)
                    ELSE ParseElems(s, j, <<>>)
           [] s[i] = "{" ->
                LET j == SkipWs(s, i + 1)
                IN  IF j <= Len(s) /\ s[j] = "}" THEN ParseOk(JObj(<<>>), j + 1)
                    ELSE ParseMembers(s, j, <<>>)
           [] OTHER -> ParseFail

ParseElems(s, i, acc) ==
    LET r == ParseValue(s, i)
        j == SkipWs(s, r.next)
    IN  IF ~r.ok \/ j > Len(s) THEN ParseFail
        ELSE IF s[j] = "," THEN ParseElems(s, SkipWs(s, j + 1), Append(acc, r.val))
        ELSE IF s[j] = "]" THEN ParseOk(JArr(Append(acc, r.val)), j + 1)
        ELSE ParseFail

ParseMembers(s, i, acc) ==
    LET key == ParseString(s, i)
        c == SkipWs(s, key.next)
        r == ParseValue(s, SkipWs(s, c + 1))
        j == SkipWs(s, r.next)
    IN  IF ~key.ok \/ c > Len(s) THEN ParseFail
        ELSE IF s[c] # ":" \/ ~r.ok \/ j > Len(s) THEN ParseFail
        ELSE IF s[j] = ","
             THEN ParseMembers(s, SkipWs(s, j + 1), SetMember(acc, key.val.str, r.val))
        ELSE IF s[j] = "}" THEN ParseOk(JObj(SetMember(acc, key.val.str, r.val)), j + 1)
        ELSE ParseFail

\* JSON.parse(s): ok is false where it throws a SyntaxError
JSONparse(s) ==
    LET r == ParseValue(s, SkipWs(s, 1))
    IN  IF r.ok /\ SkipWs(s, r.next) > Len(s) THEN r ELSE ParseFail

RECURSIVE JSONstringify(_)
RECURSIVE JoinElems(_, _)
RECURSIVE JoinMembers(_, _)

JoinElems(es, i) ==
    IF i > Len(es) THEN <<>>
    ELSE (IF i > 1 THEN <<",">> ELSE <<>>) \o JSONstringify(es[i]) \o JoinElems(es, i + 1)

JoinMembers(ms, i) ==
    IF i > Len(ms) THEN <<>>
    ELSE (IF i > 1 THEN <<",">> ELSE <<>>) \o <<"Q">> \o ms[i].k \o <<"Q", ":">>
         \o JSONstringify(ms[i].v) \o JoinMembers(ms, i + 1)

JSONstringify(v) ==
    CASE v.t = "num" -> <<IF v.num = 0 THEN "0" ELSE "1">>
      [] v.t = "str" -> <<"Q">> \o v.str \o <<"Q">>
      [] v.t = "arr" -> <<"[">> \o JoinElems(v.elems, 1) \o <<"]">>
      [] v.t = "obj" -> <<"{">> \o JoinMembers(v.members, 1) \o <<"}">>
      [] OTHER -> <<"null">>

-----------------------------------------------------------------------------
(* The response handling of handleAnalyze. *)

BT == "BT"
Fence == <<BT, BT, BT>>

HasPrefix(s, p) == Len(s) >= Len(p) /\ SubSeq(s, 1, Len(p)) = p
Drop(s, n) == SubSeq(s, n + 1, Len(s))
DropNL(s) == IF s # <<>> /\ Head(s) = "NL" THEN Tail(s) ELSE s

\* t.replace(/```json\n?/g, '')
RECURSIVE ReplaceJsonFence(_)
ReplaceJsonFence(t) ==
    IF t = <<>> THEN <<>>
    ELSE IF HasPrefix(t, Fence \o <<"json">>) THEN ReplaceJsonFence(DropNL(Drop(t, 4)))
    ELSE <<Head(t)>> \o ReplaceJsonFence(Tail(t))

\* t.replace(/```\n?/g, '')
RECURSIVE ReplaceFence(_)
ReplaceFence(t) ==
    IF t = <<>> THEN <<>>
    ELSE IF HasPrefix(t, Fence) THEN ReplaceFence(DropNL(Drop(t, 3)))
    ELSE <<Head(t)>> \o ReplaceFence(Tail(t))

RECURSIVE TrimStart(_)
TrimStart(t) == IF t # <<>> /\ IsWs(Head(t)) THEN TrimStart(Tail(t)) ELSE t

RECURSIVE TrimEnd(_)
TrimEnd(t) == IF t # <<>> /\ IsWs(t[Len(t)]) THEN TrimEnd(SubSeq(t, 1, Len(t) - 1)) ELSE t

\* t.trim()
Trim(t) == TrimEnd(TrimStart(t))


\* Only the ```json opener is removed.
RemoveCodeBlocksOpenerOnly(feedbackText) == Trim(ReplaceJsonFence(feedbackText))

\* feedbackText.replace(/```json\n?/g, '').replace(/```\n?/g, '').trim()
RemoveCodeBlocks(feedbackText) == Trim(ReplaceFence(ReplaceJsonFence(feedbackText)))

\* One item of a content array; text and content are undefined or strings.
Item(type, text, content) == [isNull |-> FALSE, type |-> type, text |-> text, content |-> content]
NullItem == [isNull |-> TRUE, type |-> "", text |-> JUndefined, content |-> JUndefined]

\* (item) => item.type === 'text' || item.text
IsTextContent(item) == item.type = "text" \/ Truthy(item.text)


\* content[0] is taken whatever it is.
FindTextContentFirst(items, i) == [threw |-> FALSE, at |-> IF items = <<>> THEN 0 ELSE 1]

\* content.find(...): the index of the first item the predicate accepts, 0 if
\* none; threw when the predicate reads a property of a null item first.
RECURSIVE FindTextContent(_, _)
FindTextContent(items, i) ==
    IF i > Len(items) THEN [threw |-> FALSE, at |-> 0]
    ELSE IF items[i].isNull THEN [threw |-> TRUE, at |-> 0]
    ELSE IF IsTextContent(items[i]) THEN [threw |-> FALSE, at |-> i]
    ELSE FindTextContent(items, i + 1)

\* textContent?.text || textContent?.content || ''
TextOf(items, at) ==
    IF at = 0 THEN <<>>
    ELSE IF Truthy(items[at].text) THEN items[at].text.str
    ELSE IF Truthy(items[at].content) THEN items[at].content.str
    ELSE <<>>

\* What ai.feedback resolves to: undefined, or a response whose message is
\* missing, or whose message.content is a string, an array or something else.
NoFeedback == [kind |-> "undefined", str |-> <<>>, items |-> <<>>]
NoMessage == [kind |-> "nomessage", str |-> <<>>, items |-> <<>>]
OtherContent == [kind |-> "other", str |-> <<>>, items |-> <<>>]
StringContent(s) == [kind |-> "string", str |-> s, items |-> <<>>]
ArrayContent(items) == [kind |-> "array", str |-> <<>>, items |-> items]


\* Only an array content is read.
ExtractFeedbackTextArrayOnly(feedback) ==
    IF feedback.kind = "array"
    THEN [threw |-> FALSE, text |-> TextOf(feedback.items, FindTextContent(feedback.items, 1).at)]
    ELSE [threw |-> feedback.kind = "nomessage", text |-> <<>>]

\* Lines 77-83: the text taken from feedback.message.content; threw when the
\* code throws a TypeError instead.
ExtractFeedbackText(feedback) ==
    CASE feedback.kind = "nomessage" -> [threw |-> TRUE, text |-> <<>>]
      [] feedback.kind = "string" -> [threw |-> FALSE, text |-> feedback.str]
      [] feedback.kind = "array" ->
           LET f == FindTextContent(feedback.items, 1)
           IN  [threw |-> f.threw,
                text |-> IF f.threw THEN <<>> ELSE TextOf(feedback.items, f.at)]
      [] OTHER -> [threw |-> FALSE, text |-> <<>>]


\* Only ATS is looked at.
FailsValidationATSOnly(parsedFeedback) == ~Truthy(Prop(parsedFeedback, <<"ATS">>))

\* !parsedFeedback.overallScore || !parsedFeedback.ATS
FailsValidation(parsedFeedback) ==
    ~Truthy(Prop(parsedFeedback, <<"overallScore">>)) \/ ~Truthy(Prop(parsedFeedback, <<"ATS">>))

-----------------------------------------------------------------------------
(* The inputs: what the user enters and what the collaborators answer. *)

RunIds == 1..MaxRuns

NoFile == "null"
Files == {"resume.pdf"}

\* The form fields read by handleSubmit; no field is required.
Forms ==
    { [companyName |-> "", jobTitle |-> "", jobDescription |-> ""],
      [companyName |-> "Acme", jobTitle |-> "Engineer", jobDescription |-> "Build things"] }

\* What a rejected call throws: an Error with a message, or something else.
NoErr == [isError |-> FALSE, message |-> ""]
Errors == { [isError |-> TRUE, message |-> "Network error"], NoErr }

TypeError(what) == [isError |-> TRUE, message |-> "Cannot read properties of " \o what]

\* How an awaited call settles: it resolves to a usable value, resolves to a
\* falsy one, or rejects.
Outcome(result, err) == [result |-> result, err |-> err]
Outcomes ==
    { Outcome("resolved", NoErr), Outcome("falsy", NoErr) }
        \cup { Outcome("rejected", e) : e \in Errors }

ScoreBody(score) ==
    <<"{", "Q", "overallScore", "Q", ":", score, ",", "Q", "ATS", "Q", ":", "{", "}", "}">>

\* A well-formed feedback whose tips quote a code fence.
TipsBody ==
    <<"{", "Q", "overallScore", "Q", ":", "1", ",", "Q", "ATS", "Q", ":", "{",
      "Q", "tips", "Q", ":", "Q", "use", "SP", BT, BT, BT, "Q", "}", "}">>

\* The JSON documents the AI service may wrap in a fence.
Bodies == { ScoreBody("1"), ScoreBody("0"), TipsBody, <<"{", "}">> }

FenceOpeners == { Fence \o <<"json", "NL">>, Fence \o <<"NL">> }
FenceCloser == <<"NL">> \o Fence

Fenced(opener, body) == opener \o body \o FenceCloser

Texts ==
    Bodies
        \cup { Fenced(o, b) : o \in FenceOpeners, b \in Bodies }
        \cup { <<>>, <<"null">>, <<"1">>, <<"[", "]">>, <<"Q", "ok", "Q">>, <<"Sorry">>,
               <<"{", "Q", "ATS", "Q", ":", "{", "}", "}">>,
               <<"SP">> \o ScoreBody("1") \o <<"NL">>,
               <<BT>> \o Fence \o <<"json">> \o <<BT, BT>> \o ScoreBody("1") }

Items ==
    { Item("text", JStr(Fenced(Fence \o <<"json", "NL">>, ScoreBody("1"))), JUndefined),
      Item("text", JStr(<<>>), JStr(ScoreBody("1"))),
      Item("reasoning", JStr(<<"{", "}">>), JUndefined),
      Item("output", JUndefined, JStr(ScoreBody("1"))),
      NullItem }

Arrays == UNION { [1..n -> Items] : n \in 0..MaxItems }

Responses ==
    { NoMessage, OtherContent }
        \cup { StringContent(t) : t \in Texts }
        \cup { ArrayContent(a) : a \in Arrays }

-----------------------------------------------------------------------------
(* The component and the invocations of handleAnalyze. *)

VARIABLES
    isProcessing,   \* useState(false), line 14
    statusText,     \* useState(''), line 15
    file,           \* useState<File|null>(null), line 16
    kv,             \* the key/value store behind kv.set
    location,       \* the route navigate was last called with
    uuids,          \* how many identifiers generateUUID has handed out
    runs            \* the invocations of handleAnalyze: position, locals, calls made

vars == <<isProcessing, statusText, file, kv, location, uuids, runs>>

Frame0 ==
    [pc |-> "idle", companyName |-> "", jobTitle |-> "", jobDescription |-> "",
     file |-> NoFile, uploadedFile |-> JUndefined, ImageFile |-> [file |-> NoFile],
     uploadedImage |-> JUndefined, uuid |-> "", data |-> JUndefined,
     feedback |-> NoFeedback, feedbackText |-> <<>>, parsedFeedback |-> JUndefined,
     calls |-> <<>>]

Ended(f) == f.pc \in {"failed", "done"}
InFlight(f) == f.pc \notin {"idle", "failed", "done"}

\* The locals of an invocation that has returned are gone once the next one
\* starts; only that it ended, and how, is kept.
Returned(f) == IF Ended(f) THEN [Frame0 EXCEPT !.pc = f.pc] ELSE f

Init ==
    /\ isProcessing = FALSE
    /\ statusText = ""
    /\ file = NoFile
    /\ kv = [k \in {} |-> <<>>]
    /\ location = "/upload"
    /\ uuids = 0
    /\ runs = [r \in RunIds |-> Frame0]

\* The collaborators' side of the calls.
FSItem(name) == JObj(<<[k |-> <<"path">>, v |-> JStr(<<name>>)]>>)
generateUUID(n) == "uuid-" \o ToString(n)
prepareInstructions(jobTitle, jobDescription) == <<"instructions", jobTitle, jobDescription>>
KvSet(store, key, value) == [k \in DOMAIN store \cup {key} |-> IF k = key THEN value ELSE store[k]]

\* A call as it is made, and the same call once it has settled.
Call(op, arg, val) == [op |-> op, arg |-> arg, val |-> val, result |-> "pending"]
Settle(calls, result) ==
    IF calls # <<>> /\ calls[Len(calls)].result = "pending"
    THEN [calls EXCEPT ![Len(calls)].result = result]
    ELSE calls

\* The h2 of lines 153-160 and the form of line 161.
DefaultHeading == "Drop your resume for an ATS score and improvement tips"
RenderedText == IF isProcessing THEN statusText ELSE DefaultHeading

\* The form stays while a run is in progress.
FormAlwaysRendered == TRUE

FormRendered == ~isProcessing

-----------------------------------------------------------------------------
(* handleAnalyze, one action per stretch of code between two awaits.  The  *)
(* stretch after ai.feedback is taken in two steps, lines 64-89 and 91-115,*)
(* so that the extracted text is a state of its own.                       *)

\* The last call of frame f has settled.
Settled(f, result) == [f EXCEPT !.calls = Settle(@, result)]

\* setIsProcessing(false); return setStatusText(msg) -- invocation r ends
\* with the locals of frame f.
Fail(r, f, msg) ==
    /\ isProcessing' = FALSE
    /\ statusText' = msg
    /\ runs' = [runs EXCEPT ![r] = [f EXCEPT !.pc = "failed"]]
    /\ UNCHANGED <<file, kv, location, uuids>>


\* The catch sets the message and leaves the flag as it is.
CatchKeepsFlag(r, f, err) ==
    /\ statusText' = "Error: " \o (IF err.isError THEN err.message ELSE "Unknown error occurred")
    /\ runs' = [runs EXCEPT ![r] = [f EXCEPT !.pc = "failed"]]
    /\ UNCHANGED <<isProcessing, file, kv, location, uuids>>

\* There is no catch: what is thrown leaves handleAnalyze.
CatchRethrows(r, f, err) ==
    /\ runs' = [runs EXCEPT ![r] = [f EXCEPT !.pc = "thrown"]]
    /\ UNCHANGED <<isProcessing, statusText, file, kv, location, uuids>>

\* Lines 121-125: the catch of handleAnalyze.
Catch(r, f, err) ==
    Fail(r, f, "Error: " \o (IF err.isError THEN err.message ELSE "Unknown error occurred"))

\* Lines 18-20; the FileUploader is part of the form.
handleFileSelect(f) ==
    /\ FormRendered
    /\ file' = f
    /\ UNCHANGED <<isProcessing, statusText, kv, location, uuids, runs>>

\* The conversion is called before the resume is uploaded.
StartAnalyzeConvertsFirst(r, form) ==
    /\ isProcessing' = TRUE
    /\ statusText' = "Uploading Resume..."
    /\ runs' = [q \in RunIds |->
                  IF q = r
                  THEN [Frame0 EXCEPT !.pc = "await_upload_resume",
                                      !.companyName = form.companyName,
                                      !.jobTitle = form.jobTitle,
                                      !.jobDescription = form.jobDescription,
                                      !.file = file,
                                      !.calls = <<Call("convertPdfToImage", file, <<>>)>>]
                  ELSE Returned(runs[q])]
    /\ UNCHANGED <<file, kv, location, uuids>>

\* Lines 24-28: handleAnalyze up to the first await.
StartAnalyze(r, form) ==
    /\ isProcessing' = TRUE
    /\ statusText' = "Uploading Resume..."
    /\ runs' = [q \in RunIds |->
                  IF q = r
                  THEN [Frame0 EXCEPT !.pc = "await_upload_resume",
                                      !.companyName = form.companyName,
                                      !.jobTitle = form.jobTitle,
                                      !.jobDescription = form.jobDescription,
                                      !.file = file,
                                      !.calls = <<Call("fs.upload", file, <<>>)>>]
                  ELSE Returned(runs[q])]
    /\ UNCHANGED <<file, kv, location, uuids>>

\* The submit handler does not look at the file.
handleSubmitNoFileCheck(form) ==
    /\ FormRendered
    /\ \E r \in RunIds :
          /\ runs[r].pc = "idle"
          /\ \A q \in 1..(r - 1) : runs[q].pc # "idle"
          /\ StartAnalyze(r, form)

\* Lines 128-142: a submit of the form, which exists only while it is rendered.
handleSubmit(form) ==
    /\ FormRendered
    /\ IF file = NoFile
       THEN UNCHANGED vars
       ELSE \E r \in RunIds :
              /\ runs[r].pc = "idle"
              /\ \A q \in 1..(r - 1) : runs[q].pc # "idle"
              /\ StartAnalyze(r, form)

\* Lines 28-35: fs.upload([file]) settles.
UploadResumeSettles(r, o) ==
    /\ runs[r].pc = "await_upload_resume"
    /\ LET f == Settled(runs[r], o.result)
       IN  IF o.result = "rejected" THEN Catch(r, f, o.err)
           ELSE IF o.result = "falsy"
           THEN Fail(r, f, "Failed to upload file. Please try again.")
           ELSE /\ statusText' = "Converting to Image..."
                /\ runs' = [runs EXCEPT ![r] =
                       [f EXCEPT !.pc = "await_convert",
                                 !.uploadedFile = FSItem(f.file),
                                 !.calls = Append(@, Call("convertPdfToImage", f.file, <<>>))]]
                /\ UNCHANGED <<isProcessing, file, kv, location, uuids>>

\* Lines 35-42: convertPdfToImage(file) settles; falsy is a result without a file.
ConvertSettles(r, o) ==
    /\ runs[r].pc = "await_convert"
    /\ LET f == Settled(runs[r], o.result)
       IN  IF o.result = "rejected" THEN Catch(r, f, o.err)
           ELSE IF o.result = "falsy"
           THEN Fail(r, f, "Failed to convert file to image.")
           ELSE /\ statusText' = "Uploading the Image"
                /\ runs' = [runs EXCEPT ![r] =
                       [f EXCEPT !.pc = "await_upload_image",
                                 !.ImageFile = [file |-> "resume.png"],
                                 !.calls = Append(@, Call("fs.upload", "resume.png", <<>>))]]
                /\ UNCHANGED <<isProcessing, file, kv, location, uuids>>

\* A string the user typed, as text.
Text(s) == IF s = "" THEN <<>> ELSE <<s>>

\* The record's id comes from a second call of generateUUID.
NewDataFreshId(f, uuid, uploadedImage) ==
    JObj(<< [k |-> <<"id">>, v |-> JStr(<<generateUUID(uuids + 2)>>)],
            [k |-> <<"resumePath">>, v |-> Prop(f.uploadedFile, <<"path">>)],
            [k |-> <<"imagePath">>, v |-> Prop(uploadedImage, <<"path">>)],
            [k |-> <<"companyName">>, v |-> JStr(Text(f.companyName))],
            [k |-> <<"jobTitle">>, v |-> JStr(Text(f.jobTitle))],
            [k |-> <<"jobDescription">>, v |-> JStr(Text(f.jobDescription))],
            [k |-> <<"feedback">>, v |-> JStr(<<>>)] >>)

\* Lines 51-59: the record, feedback still ''.
NewData(f, uuid, uploadedImage) ==
    JObj(<< [k |-> <<"id">>, v |-> JStr(<<uuid>>)],
            [k |-> <<"resumePath">>, v |-> Prop(f.uploadedFile, <<"path">>)],
            [k |-> <<"imagePath">>, v |-> Prop(uploadedImage, <<"path">>)],
            [k |-> <<"companyName">>, v |-> JStr(Text(f.companyName))],
            [k |-> <<"jobTitle">>, v |-> JStr(Text(f.jobTitle))],
            [k |-> <<"jobDescription">>, v |-> JStr(Text(f.jobDescription))],
            [k |-> <<"feedback">>, v |-> JStr(<<>>)] >>)

\* Lines 42-60: the second fs.upload settles; the record is built and kv.set called.
UploadImageSettles(r, o) ==
    /\ runs[r].pc = "await_upload_image"
    /\ LET f == Settled(runs[r], o.result)
           uuid == generateUUID(uuids + 1)
           uploadedImage == FSItem(f.ImageFile.file)
           data == NewData(f, uuid, uploadedImage)
       IN  IF o.result = "rejected" THEN Catch(r, f, o.err)
           ELSE IF o.result = "falsy"
           THEN Fail(r, f, "Failed to upload File. Please try again.")
           ELSE /\ statusText' = "perparing Data ..."
                /\ uuids' = uuids + 1
                /\ runs' = [runs EXCEPT ![r] =
                       [f EXCEPT !.pc = "await_kv_pending",
                                 !.uploadedImage = uploadedImage,
                                 !.uuid = uuid,
                                 !.data = data,
                                 !.calls = Append(@, Call("kv.set", "resume:" \o uuid,
                                                          JSONstringify(data)))]]
                /\ UNCHANGED <<isProcessing, file, kv, location>>

\* The store after the kv.set last called by r has settled with o: only a
\* call that resolves to true has written.
KvAfter(r, o) ==
    LET c == runs[r].calls[Len(runs[r].calls)]
    IN  IF o.result = "resolved" THEN KvSet(kv, c.arg, c.val) ELSE kv

\* Lines 60-67: the first kv.set settles; what it resolves to is not looked at.
KvPendingSettles(r, o) ==
    /\ runs[r].pc = "await_kv_pending"
    /\ LET f == Settled(runs[r], o.result)
       IN  IF o.result = "rejected" THEN Catch(r, f, o.err)
           ELSE /\ kv' = KvAfter(r, o)
                /\ statusText' = "Analyzing ..."
                /\ runs' = [runs EXCEPT ![r] =
                       [f EXCEPT !.pc = "await_feedback",
                                 !.calls = Append(@,
                                     Call("ai.feedback",
                                          Prop(f.uploadedFile, <<"path">>).str[1],
                                          prepareInstructions(f.jobTitle, f.jobDescription)))]]
                /\ UNCHANGED <<isProcessing, file, location, uuids>>

\* Lines 64-89: ai.feedback settles and the text of the response is taken.
FeedbackSettles(r, o, feedback) ==
    /\ runs[r].pc = "await_feedback"
    /\ LET f == Settled(runs[r], o.result)
           g == [f EXCEPT !.feedback = feedback]
           x == ExtractFeedbackText(feedback)
       IN  IF o.result = "rejected" THEN Catch(r, f, o.err)
           ELSE IF o.result = "falsy"
           THEN Fail(r, f, "Failed to analyze resume. Please try again.")
           ELSE IF x.threw
           THEN Catch(r, g, TypeError(IF feedback.kind = "nomessage"
                                      THEN "undefined (reading 'content')"
                                      ELSE "null (reading 'type')"))
           ELSE IF x.text = <<>>
           THEN Fail(r, g, "Invalid AI response format. Please try again.")
           ELSE /\ runs' = [runs EXCEPT ![r] =
                       [g EXCEPT !.pc = "extracted", !.feedbackText = x.text]]
                /\ UNCHANGED <<isProcessing, statusText, file, kv, location, uuids>>

\* Lines 91-115: the fences are removed, the text parsed, the result
\* validated and the record written again.
ParseFeedback(r) ==
    /\ runs[r].pc = "extracted"
    /\ LET feedbackText == RemoveCodeBlocks(runs[r].feedbackText)
           p == JSONparse(feedbackText)
           parsedFeedback == p.val
           f == [runs[r] EXCEPT !.feedbackText = feedbackText]
           g == [f EXCEPT !.parsedFeedback = parsedFeedback]
           data == JObj(SetMember(g.data.members, <<"feedback">>, parsedFeedback))
       IN  IF ~p.ok
           THEN Fail(r, f, "Failed to parse AI response. Please try again.")
           ELSE IF PropThrows(parsedFeedback)
           THEN Catch(r, g, TypeError("null (reading 'overallScore')"))
           ELSE IF FailsValidation(parsedFeedback)
           THEN Fail(r, g, "Invalid feedback format from AI. Please try again.")
           ELSE /\ runs' = [runs EXCEPT ![r] =
                       [g EXCEPT !.pc = "await_kv_final",
                                 !.data = data,
                                 !.calls = Append(@, Call("kv.set", "resume:" \o g.uuid,
                                                          JSONstringify(data)))]]
                /\ UNCHANGED <<isProcessing, statusText, file, kv, location, uuids>>

\* The record is written once more before navigating.
KvFinalSettlesWritesAgain(r, o) ==
    /\ runs[r].pc = "await_kv_final"
    /\ LET f == Settled(runs[r], o.result)
           to == "/resume/" \o f.uuid
           again == [f.calls[Len(f.calls)] EXCEPT !.result = "resolved"]
       IN  IF o.result = "rejected" THEN Catch(r, f, o.err)
           ELSE /\ kv' = KvSet(kv, again.arg, again.val)
                /\ statusText' = "Analysis Complete! Redirecting..."
                /\ location' = to
                /\ runs' = [runs EXCEPT ![r] =
                       [f EXCEPT !.pc = "done",
                                 !.calls = @ \o <<again, [Call("navigate", to, <<>>)
                                                            EXCEPT !.result = "resolved"]>>]]
                /\ UNCHANGED <<isProcessing, file, uuids>>

\* The flag is cleared on success too.
KvFinalSettlesClearsFlag(r, o) ==
    /\ runs[r].pc = "await_kv_final"
    /\ LET f == Settled(runs[r], o.result)
           to == "/resume/" \o f.uuid
       IN  IF o.result = "rejected" THEN Catch(r, f, o.err)
           ELSE /\ kv' = KvAfter(r, o)
                /\ isProcessing' = FALSE
                /\ statusText' = "Analysis Complete! Redirecting..."
                /\ location' = to
                /\ runs' = [runs EXCEPT ![r] =
                       [f EXCEPT !.pc = "done",
                                 !.calls = Append(@, [Call("navigate", to, <<>>)
                                                         EXCEPT !.result = "resolved"])]]
                /\ UNCHANGED <<file, uuids>>

\* Lines 115-120: the second kv.set settles; navigate.
KvFinalSettles(r, o) ==
    /\ runs[r].pc = "await_kv_final"
    /\ LET f == Settled(runs[r], o.result)
           to == "/resume/" \o f.uuid
       IN  IF o.result = "rejected" THEN Catch(r, f, o.err)
           ELSE /\ kv' = KvAfter(r, o)
                /\ statusText' = "Analysis Complete! Redirecting..."
                /\ location' = to
                /\ runs' = [runs EXCEPT ![r] =
                       [f EXCEPT !.pc = "done",
                                 !.calls = Append(@, [Call("navigate", to, <<>>)
                                                         EXCEPT !.result = "resolved"])]]
                /\ UNCHANGED <<isProcessing, file, uuids>>

Next ==
    \/ \E f \in Files \cup {NoFile} : handleFileSelect(f)
    \/ \E form \in Forms : handleSubmit(form)
    \/ \E r \in RunIds, o \in Outcomes : UploadResumeSettles(r, o)
    \/ \E r \in RunIds, o \in Outcomes : ConvertSettles(r, o)
    \/ \E r \in RunIds, o \in Outcomes : UploadImageSettles(r, o)
    \/ \E r \in RunIds, o \in Outcomes : KvPendingSettles(r, o)
    \/ \E r \in RunIds, o \in Outcomes, feedback \in Responses : FeedbackSettles(r, o, feedback)
    \/ \E r \in RunIds : ParseFeedback(r)
    \/ \E r \in RunIds, o \in Outcomes : KvFinalSettles(r, o)

Spec == Init /\ [][Next]_vars

-----------------------------------------------------------------------------
(* The properties. *)

\* r is the invocation started last.
LastRun(r) == runs[r].pc # "idle" /\ \A q \in RunIds : q > r => runs[q].pc = "idle"

CallsOf(f, op) == { i \in 1..Len(f.calls) : f.calls[i].op = op }

InvalidResponse == "Invalid AI response format. Please try again."
InvalidFeedback == "Invalid feedback format from AI. Please try again."

\* C1: a run of handleAnalyze that has ended without navigating has left
\* isProcessing false and statusText non-empty.
C1_FailedRunClearsFlag ==
    \A r \in RunIds :
        LastRun(r) /\ runs[r].pc = "failed" => isProcessing = FALSE /\ statusText # ""

\* A run ended by a rejected call that threw something that is no Error.
C1_Witness ==
    \E r \in RunIds :
        /\ LastRun(r) /\ runs[r].pc = "failed"
        /\ runs[r].calls[Len(runs[r].calls)].result = "rejected"
        /\ statusText = "Error: Unknown error occurred"
        /\ ~isProcessing

\* C2: once an external call of a run has failed (resolved to a falsy value
\* or rejected), the run makes no later external call: a failed call is the
\* last call of its run.
C2_GatedOnSuccess ==
    \A r \in RunIds : \A i \in 1..Len(runs[r].calls) :
        runs[r].calls[i].result \in {"falsy", "rejected"} => i = Len(runs[r].calls)

\* The response is a string that is well-formed JSON with both fields.
WellFormedFeedback(feedback) ==
    /\ feedback.kind = "string"
    /\ JSONparse(feedback.str).ok
    /\ HasProp(JSONparse(feedback.str).val, <<"overallScore">>)
    /\ HasProp(JSONparse(feedback.str).val, <<"ATS">>)

\* C3: a run in which no call failed and whose AI response is well-formed JSON
\* containing overallScore and ATS ends with navigate('/resume/<id>').
C3_WellFormedNavigates ==
    \A r \in RunIds :
        /\ Ended(runs[r])
        /\ WellFormedFeedback(runs[r].feedback)
        /\ \A i \in 1..Len(runs[r].calls) : runs[r].calls[i].result = "resolved"
        => /\ runs[r].pc = "done"
           /\ location = "/resume/" \o runs[r].uuid

\* C4: after a failed run the text the component renders is the failure
\* message the failing step stored in statusText.
C4_FailureMessageRendered ==
    \A r \in RunIds :
        LastRun(r) /\ runs[r].pc = "failed" => RenderedText = statusText

\* The feedback of the record that text t serialises is '' or an object with
\* both fields.
PendingOrValidated(t) ==
    LET p == JSONparse(t)
        fb == Prop(p.val, <<"feedback">>)
    IN  /\ p.ok
        /\ HasProp(p.val, <<"id">>)
        /\ \/ fb = JStr(<<>>)
           \/ fb.t = "obj" /\ HasProp(fb, <<"overallScore">>) /\ HasProp(fb, <<"ATS">>)

\* C5: every value handed to kv.set, and every value the store holds, is a
\* record whose feedback is '' or an object with overallScore and ATS.
C5_StoredFeedbackValid ==
    /\ \A k \in DOMAIN kv : PendingOrValidated(kv[k])
    /\ \A r \in RunIds : \A i \in CallsOf(runs[r], "kv.set") :
           PendingOrValidated(runs[r].calls[i].val)

\* The store holds a record with feedback attached.
C5_Witness ==
    \E k \in DOMAIN kv : Prop(JSONparse(kv[k]).val, <<"feedback">>).t = "obj"

\* C6: a run whose parsed response has neither overallScore nor ATS has
\* failed with the invalid-format status, the flag cleared, one kv.set only
\* and no navigate.
C6_AbsentFieldsRejected ==
    \A r \in RunIds :
        LET p == runs[r].parsedFeedback
        IN  /\ p.t # "undefined"
            /\ ~HasProp(p, <<"overallScore">>)
            /\ ~HasProp(p, <<"ATS">>)
            => /\ runs[r].pc = "failed"
               /\ statusText = InvalidFeedback
               /\ ~isProcessing
               /\ Cardinality(CallsOf(runs[r], "kv.set")) = 1
               /\ CallsOf(runs[r], "navigate") = {}

\* The places of the text-flagged items of an array.
TextFlagged(items) == { i \in 1..Len(items) : ~items[i].isNull /\ items[i].type = "text" }

\* C7 as stated: whenever the content is an array with one text-flagged
\* item, the text extracted is that item's text.
C7_TextItemExtracted ==
    \A r \in RunIds :
        LET f == runs[r]
        IN  f.pc = "extracted" /\ f.feedback.kind = "array"
            => \A i \in TextFlagged(f.feedback.items) :
                   TextFlagged(f.feedback.items) = {i}
                   => f.feedbackText = f.feedback.items[i].text.str

\* C7 amended: ... provided that item's text is non-empty and no item before
\* it is null or carries a non-empty text.
C7_FirstTextItemExtracted ==
    \A r \in RunIds :
        LET f == runs[r]
            items == f.feedback.items
        IN  f.pc = "extracted" /\ f.feedback.kind = "array"
            => \A i \in TextFlagged(items) :
                   /\ TextFlagged(items) = {i}
                   /\ Truthy(items[i].text)
                   /\ \A j \in 1..(i - 1) : ~items[j].isNull /\ ~Truthy(items[j].text)
                   => f.feedbackText = items[i].text.str

\* The text-flagged item comes second, after an item that only has content.
C7_Witness ==
    \E r \in RunIds :
        LET f == runs[r]
        IN  /\ f.pc = "extracted" /\ f.feedback.kind = "array"
            /\ Len(f.feedback.items) = 2
            /\ TextFlagged(f.feedback.items) = {2}
            /\ Truthy(f.feedback.items[1].content)
            /\ f.feedbackText = f.feedback.items[2].text.str

\* C8 as stated: for a string content the extracted text is that string and
\* the run does not report an invalid response format.
C8_StringExtracted ==
    \A r \in RunIds :
        LET f == runs[r]
        IN  f.feedback.kind = "string"
            => /\ f.pc = "extracted" => f.feedbackText = f.feedback.str
               /\ ~(f.pc = "failed" /\ statusText = InvalidResponse)

\* C8 amended: for a non-empty string content ...
C8_NonEmptyStringExtracted ==
    \A r \in RunIds :
        LET f == runs[r]
        IN  f.feedback.kind = "string" /\ f.feedback.str # <<>>
            => /\ f.pc = "extracted" => f.feedbackText = f.feedback.str
               /\ ~(f.pc = "failed" /\ statusText = InvalidResponse)

\* A non-empty string has been extracted and is about to be stripped.
C8_Witness ==
    \E r \in RunIds :
        /\ runs[r].pc = "extracted"
        /\ runs[r].feedback.kind = "string"
        /\ runs[r].feedback.str # <<>>
        /\ runs[r].feedbackText = runs[r].feedback.str

\* t holds no code-fence marker.
NoFence(t) == \A i \in 1..Len(t) : ~HasPrefix(Drop(t, i - 1), Fence)

\* Frame f is past line 92: its feedbackText is what JSON.parse is handed.
Stripped(f) ==
    /\ f.pc \in {"await_kv_final", "done", "failed"}
    /\ ~ExtractFeedbackText(f.feedback).threw
    /\ ExtractFeedbackText(f.feedback).text # <<>>

\* C9 as stated: the text handed to JSON.parse holds no fence marker, and for
\* a text made of a fence opener, a JSON body and a fence closer it is the
\* trimmed body.
C9_FencesStripped ==
    \A r \in RunIds :
        LET f == runs[r]
        IN  Stripped(f)
            => /\ NoFence(f.feedbackText)
               /\ \A o \in FenceOpeners, b \in Bodies :
                      ExtractFeedbackText(f.feedback).text = Fenced(o, b)
                      => f.feedbackText = Trim(b)

\* C9 amended: ... it is the trimmed body, provided the body itself holds no
\* fence marker.
C9_FencesStrippedCleanBody ==
    \A r \in RunIds :
        LET f == runs[r]
        IN  Stripped(f)
            => /\ NoFence(f.feedbackText)
               /\ \A o \in FenceOpeners, b \in Bodies :
                      ExtractFeedbackText(f.feedback).text = Fenced(o, b) /\ NoFence(b)
                      => f.feedbackText = Trim(b)

\* A fenced document has been stripped to its body.
C9_Witness ==
    \E r \in RunIds :
        /\ Stripped(runs[r])
        /\ runs[r].feedback.kind = "string"
        /\ runs[r].feedback.str = Fenced(Fence \o <<"json", "NL">>, ScoreBody("1"))
        /\ runs[r].feedbackText = ScoreBody("1")

\* C10: at most one run of handleAnalyze is in flight.
C10_OneRunInFlight == Cardinality({ r \in RunIds : InFlight(runs[r]) }) <= 1

\* A second run is in flight after the first has failed.
C10_Witness ==
    \E r, q \in RunIds : r < q /\ runs[r].pc = "failed" /\ InFlight(runs[q])

\* The external calls of handleAnalyze, in the order of lines 28, 35, 42, 60,
\* 64, 115 and 120.
Pipeline ==
    <<"fs.upload", "convertPdfToImage", "fs.upload", "kv.set", "ai.feedback",
      "kv.set", "navigate">>

Ops(f) == [i \in 1..Len(f.calls) |-> f.calls[i].op]

\* The feedback member of a stringified record.
StoredFeedback(t) == Prop(JSONparse(t).val, <<"feedback">>)

\* C11: the calls a run has made are a prefix of the pipeline -- resume
\* upload, conversion, image upload, pending write, AI call, final write,
\* navigation -- each made only after the one before it has settled without
\* rejecting.
C11_CallsArePrefixOfPipeline ==
    \A r \in RunIds :
        LET f == runs[r]
            n == Len(f.calls)
        IN  /\ n <= Len(Pipeline)
            /\ Ops(f) = SubSeq(Pipeline, 1, n)
            /\ \A i \in 1..(n - 1) : f.calls[i].result \in {"resolved", "falsy"}
            /\ n >= 1 => f.calls[1].arg = f.file
            /\ n >= 2 => f.calls[2].arg = f.file
            /\ n >= 3 => f.calls[3].arg = f.ImageFile.file
            /\ n >= 4 => f.calls[4].arg = "resume:" \o f.uuid
            /\ n >= 5 => f.calls[5].arg = f.file
            /\ n >= 6 => f.calls[6].arg = f.calls[4].arg /\ f.calls[6].val # f.calls[4].val
            /\ n >= 7 => f.calls[7].arg = "/resume/" \o f.uuid

\* A run has made all seven calls.
C11_Witness ==
    \E r \in RunIds : runs[r].pc = "done" /\ Ops(runs[r]) = Pipeline

\* How many calls of op frame f has made.
Count(f, op) == Cardinality(CallsOf(f, op))

\* C12: a run that has navigated has called kv.set twice, fs.upload twice and
\* navigate once; no run has called them more often; a failed run has not
\* navigated, and the page is left only by a run that went through.
C12_SideEffectCounts ==
    /\ \A r \in RunIds :
          /\ Count(runs[r], "kv.set") <= 2
          /\ Count(runs[r], "fs.upload") <= 2
          /\ Count(runs[r], "navigate") <= 1
          /\ runs[r].pc = "done" =>
                /\ Count(runs[r], "kv.set") = 2
                /\ Count(runs[r], "fs.upload") = 2
                /\ Count(runs[r], "navigate") = 1
          /\ runs[r].pc # "done" => Count(runs[r], "navigate") = 0
    /\ (\A r \in RunIds : runs[r].pc # "done") => location = "/upload"

\* One run has failed and the next has navigated.
C12_Witness ==
    \E r, q \in RunIds :
        /\ runs[r].pc = "failed"
        /\ runs[q].pc = "done"
        /\ Count(runs[q], "kv.set") = 2
        /\ location = "/resume/" \o runs[q].uuid

\* The id member of a stringified record.
StoredId(t) == Prop(JSONparse(t).val, <<"id">>)

\* C13: a run uses one id throughout -- both kv.set keys are resume:<id>, the
\* record written carries that id, the navigation goes to /resume/<id> -- and
\* that id is the one generated last, so the records stored under the ids of
\* earlier runs keep their own id and are still the pending ones.
C13_OneIdPerRun ==
    /\ \A r \in RunIds :
          LET f == runs[r]
          IN  /\ f.calls # <<>> /\ f.uuid = "" =>
                    CallsOf(f, "kv.set") \cup CallsOf(f, "navigate") = {}
              /\ f.uuid # "" =>
                    /\ f.uuid = generateUUID(uuids)
                    /\ \A i \in CallsOf(f, "kv.set") :
                          /\ f.calls[i].arg = "resume:" \o f.uuid
                          /\ StoredId(f.calls[i].val) = JStr(<<f.uuid>>)
                    /\ \A i \in CallsOf(f, "navigate") :
                          /\ f.calls[i].arg = "/resume/" \o f.uuid
                          /\ location = "/resume/" \o f.uuid
    /\ \A k \in DOMAIN kv :
          \E n \in 1..uuids :
              /\ k = "resume:" \o generateUUID(n)
              /\ LET record == JSONparse(kv[k]).val
                 IN  /\ Prop(record, <<"id">>) = JStr(<<generateUUID(n)>>)
                     /\ n < uuids => Prop(record, <<"feedback">>) = JStr(<<>>)

\* The store holds the pending record of a failed run and, under another
\* key, the analysed record of the run that navigated.
C13_Witness ==
    \E r \in RunIds :
        /\ runs[r].pc = "done"
        /\ runs[r].uuid = generateUUID(2)
        /\ DOMAIN kv = {"resume:" \o generateUUID(1), "resume:" \o generateUUID(2)}
        /\ StoredFeedback(kv["resume:" \o generateUUID(2)]).t = "obj"

EmptyForm == [companyName |-> "", jobTitle |-> "", jobDescription |-> ""]

\* A run starts in this step.
RunStarts == \E r \in RunIds : runs[r].pc = "idle" /\ runs'[r].pc # "idle"

\* With a file selected and the form on the page, a submit with all three
\* fields empty starts a run.
SubmitOfEmptyFormStartsRun ==
    (FormRendered /\ file # NoFile /\ \E r \in RunIds : runs[r].pc = "idle")
        => ENABLED (handleSubmit(EmptyForm) /\ RunStarts)

\* C14: a submit starts a run exactly when a file is selected.  A run starts
\* only with a file, which it takes along; while no file is selected nothing
\* but selecting one changes the flag, the status text, the store or the
\* calls made; and with a file selected a submit starts a run even when
\* company name, job title and job description are all empty.
C14_SubmitStartsRunIffFile ==
    /\ [][ /\ RunStarts => file # NoFile /\ \E r \in RunIds :
                                 /\ runs[r].pc = "idle"
                                 /\ runs'[r].file = file
                                 /\ Ops(runs'[r]) = <<"fs.upload">>
           /\ file = NoFile => UNCHANGED <<isProcessing, statusText, kv, location, runs>>
         ]_vars
    /\ []SubmitOfEmptyFormStartsRun

\* A run started with all three fields empty has written its record.
C14_Witness ==
    \E r \in RunIds :
        /\ runs[r].pc = "await_feedback"
        /\ runs[r].file # NoFile
        /\ runs[r].companyName = "" /\ runs[r].jobTitle = "" /\ runs[r].jobDescription = ""
        /\ DOMAIN kv # {}

\* Run r has failed at a step after its first kv.set: that call has settled
\* without rejecting.
FailedAfterPendingWrite(r) ==
    /\ LastRun(r)
    /\ runs[r].pc = "failed"
    /\ Count(runs[r], "kv.set") >= 1
    /\ runs[r].calls[4].result # "rejected"

\* C15: nothing is rolled back.  While the latest run has made no kv.set call
\* the store holds only the pending records of earlier runs; a run that has
\* failed after its first kv.set leaves under resume:<id> exactly the record
\* of that call, feedback '', and has written nothing after it.
C15_NoRollback ==
    \A r \in RunIds :
        /\ (LastRun(r) /\ Count(runs[r], "kv.set") = 0) =>
              \A k \in DOMAIN kv : StoredFeedback(kv[k]) = JStr(<<>>)
        /\ FailedAfterPendingWrite(r) =>
              LET key == "resume:" \o runs[r].uuid
              IN  /\ key \in DOMAIN kv
                  /\ kv[key] = runs[r].calls[4].val
                  /\ StoredFeedback(kv[key]) = JStr(<<>>)

\* A call that has been made settles.
CallSettles ==
    \/ \E r \in RunIds, o \in Outcomes : UploadResumeSettles(r, o)
    \/ \E r \in RunIds, o \in Outcomes : ConvertSettles(r, o)
    \/ \E r \in RunIds, o \in Outcomes : UploadImageSettles(r, o)
    \/ \E r \in RunIds, o \in Outcomes : KvPendingSettles(r, o)
    \/ \E r \in RunIds, o \in Outcomes, feedback \in Responses : FeedbackSettles(r, o, feedback)
    \/ \E r \in RunIds, o \in Outcomes : KvFinalSettles(r, o)

\* A run is between lines 89 and 91, in code that does not wait.
Parsing == \E r \in RunIds : runs[r].pc = "extracted"

\* Every external call eventually resolves or rejects, and synchronous code
\* runs on: no run rests between lines 89 and 91.
FairSpec == Spec /\ WF_vars(CallSettles) /\ []<>(~Parsing)

\* A run is in progress.
Running == \E r \in RunIds : InFlight(runs[r])

\* Every run has ended: the last one has navigated, or the flag is down.
AllEnded ==
    /\ ~Running
    /\ \/ \E r \in RunIds : runs[r].pc = "done"
       \/ ~isProcessing

\* C16: when every call made settles, a run that has started ends, by
\* navigating or failed with isProcessing false, and the status does not stay
\* at 'Analyzing ...', whatever the AI call returns.
C16_EveryRunEnds ==
    /\ Running ~> AllEnded
    /\ (isProcessing /\ statusText = "Analyzing ...") ~> (statusText # "Analyzing ...")

\* A run whose AI response had no message at all has ended.
C16_Witness ==
    \E r \in RunIds :
        /\ runs[r].pc = "failed"
        /\ ~isProcessing
        /\ Ops(runs[r]) = SubSeq(Pipeline, 1, 5)
        /\ runs[r].calls[5].result = "resolved"
        /\ runs[r].feedback.kind = "nomessage"

\* C17: the flag is cleared on failure paths only.  While it is down no run
\* has navigated or is in progress; once a run has navigated the flag is
\* still up, the status text is 'Analysis Complete! Redirecting...' and is
\* what the heading shows, the form is not rendered, and no run has started
\* after it or is in progress.
C17_FlagStaysUpAfterSuccess ==
    /\ ~isProcessing => \A r \in RunIds : runs[r].pc \in {"idle", "failed"}
    /\ \A r \in RunIds :
          runs[r].pc = "done" =>
              /\ isProcessing
              /\ statusText = "Analysis Complete! Redirecting..."
              /\ RenderedText = statusText
              /\ ~FormRendered
              /\ \A q \in RunIds \ {r} : ~InFlight(runs[q]) /\ (q > r => runs[q].pc = "idle")

\* The first run has navigated and nothing has started since.
C17_Witness ==
    /\ runs[1].pc = "done"
    /\ runs[2].pc = "idle"
    /\ isProcessing
    /\ location = "/resume/" \o runs[1].uuid

====
